---- MODULE Spec2Model ----
(***************************************************************************)
(* A model of carbonara's measurement engine (src/src/lib.rs):             *)
(* BenchmarkExecutor::measure and its three strategies, the RAPL and ACPI  *)
(* readers, and the f64 arithmetic that reduces readings to an             *)
(* EnergyMeasurement.                                                      *)
(*                                                                         *)
(* The platform files are the environment.  Every read of a file draws its *)
(* content afresh from a small set, so the model covers every sequence of  *)
(* values the files can deliver, including a file that changes between two *)
(* reads of the same call.                                                 *)
(*                                                                         *)
(* Time is a clock in milliseconds (Instant::now()); Duration values are   *)
(* whole milliseconds.                                                     *)
(*                                                                         *)
(* f64 is modelled as binary floating point with round-to-nearest,         *)
(* ties-to-even, at a reduced precision of MantBits significant bits (f64  *)
(* has 53).  A finite value is m * 2^e with m odd (or m = 0, e = 0).       *)
(* Division by zero gives the IEEE infinities and NaN.  u64 is modelled at *)
(* a reduced width of U64Bits bits.                                        *)
(***************************************************************************)
EXTENDS Integers, Sequences, FiniteSets, TLC

(***************************************************************************)
(* Bounds of the model.                                                    *)
(***************************************************************************)
\* significant bits of the modelled f64
MantBits == 14
\* width of the modelled u64
U64Bits == 22
\* the clock stops advancing here (milliseconds)
MaxTime == 2500

(***************************************************************************)
(* Program constants.                                                      *)
(***************************************************************************)
\* micro-units per unit: 1_000_000.0
MicroPerUnit == 1000000
\* estimated_tdp = 28.0
EstimatedTdp == 28
\* joules per kilowatt hour: 3_600_000.0
JoulesPerKwh == 3600000
\* co2e_per_kwh.unwrap_or(436.0)
DefaultCo2ePerKwh == 436

(***************************************************************************)
(* f64 arithmetic.                                                         *)
(***************************************************************************)
RECURSIVE Pow2(_)
Pow2(n) == IF n <= 0 THEN 1 ELSE 2 * Pow2(n - 1)

Abs(n) == IF n < 0 THEN -n ELSE n

Sign(n) == IF n < 0 THEN -1 ELSE 1

Min(a, b) == IF a <= b THEN a ELSE b

\* number of binary digits of a >= 0
RECURSIVE BitLen(_)
BitLen(a) == IF a = 0 THEN 0 ELSE 1 + BitLen(a \div 2)

Fin(m, e) == [c |-> "fin", m |-> m, e |-> e]

Zero == Fin(0, 0)

NaN == [c |-> "nan", m |-> 0, e |-> 0]

Inf(s) == [c |-> "inf", m |-> s, e |-> 0]

\* the representation of M * 2^E with an odd mantissa
RECURSIVE Canon(_, _)
Canon(M, E) ==
    IF M = 0 THEN Zero
    ELSE IF M % 2 = 0 THEN Canon(M \div 2, E + 1)
    ELSE Fin(M, E)

\* M * 2^E rounded to MantBits significant bits, ties to even
Round(M, E) ==
    LET a == Abs(M)
        b == BitLen(a)
    IN  IF b <= MantBits THEN Canon(M, E)
        ELSE LET sh   == b - MantBits
                 q    == a \div Pow2(sh)
                 r    == a % Pow2(sh)
                 half == Pow2(sh - 1)
                 up   == r > half \/ (r = half /\ q % 2 = 1)
                 q2   == IF up THEN q + 1 ELSE q
             IN  Canon(Sign(M) * q2, E + sh)

\* an integer converted to f64 (`as f64`, or a parsed decimal integer)
FromInt(n) == Round(n, 0)

FAdd(x, y) ==
    LET E == Min(x.e, y.e)
    IN  Round(x.m * Pow2(x.e - E) + y.m * Pow2(y.e - E), E)

FMul(x, y) == Round(x.m * y.m, x.e + y.e)

\* long division: quotient digits until MantBits + 2 of them are significant
RECURSIVE DivLoop(_, _, _, _)
DivLoop(q, r, d, k) ==
    IF r = 0 \/ q >= Pow2(MantBits + 1) THEN <<q, r, k>>
    ELSE IF 2 * r >= d THEN DivLoop(2 * q + 1, 2 * r - d, d, k + 1)
    ELSE DivLoop(2 * q, 2 * r, d, k + 1)

FDiv(x, y) ==
    IF y.m = 0
    THEN IF x.m = 0 THEN NaN ELSE Inf(Sign(x.m))
    ELSE LET n   == Abs(x.m)
             d   == Abs(y.m)
             res == DivLoop(n \div d, n % d, d, 0)
             st  == IF res[2] = 0 THEN 0 ELSE 1
         IN  Round(Sign(x.m) * Sign(y.m) * (2 * res[1] + st),
                   x.e - y.e - res[3] - 1)

\* x <= y, for finite x and y
FLe(x, y) ==
    LET E == Min(x.e, y.e)
    IN  x.m * Pow2(x.e - E) <= y.m * Pow2(y.e - E)

FLt(x, y) == FLe(x, y) /\ x # y

\* f64::max
FMax(x, y) == IF FLe(x, y) THEN y ELSE x

\* Duration::as_secs_f64, for a Duration of d milliseconds
as_secs_f64(d) ==
    FAdd(FromInt(d \div 1000), FDiv(FromInt(d % 1000), FromInt(1000)))

(***************************************************************************)
(* The platform files, as a read finds them.                               *)
(***************************************************************************)
Absent == [k |-> "absent", v |-> 0]

\* present, but read_to_string fails
Unreadable == [k |-> "unreadable", v |-> 0]

\* present, content that parses as no number
Text == [k |-> "text", v |-> 0]

\* present, content the decimal integer n
Num(n) == [k |-> "num", v |-> n]

Ok(v) == [ok |-> TRUE, err |-> "none", v |-> v]

Err(e) == [ok |-> FALSE, err |-> e, v |-> 0]

StartsWith(s, pre) ==
    Len(s) >= Len(pre) /\ SubSeq(s, 1, Len(pre)) = pre

(***************************************************************************)
(* RaplMeasurement                                                         *)
(***************************************************************************)
\* RaplMeasurement::new, given whether energy_uj exists and can be opened
RaplNew(exists, openable) ==
    IF ~exists THEN Err("RaplNotAvailable")
    ELSE IF ~openable THEN Err("RaplNotAvailable")
    ELSE Ok(0)

\* str::parse::<u64>
ParseU64(file) ==
    IF file.k = "num" /\ file.v >= 0 /\ file.v < Pow2(U64Bits)
    THEN Ok(file.v)
    ELSE Err("InvalidMeasurement")

\* a variant of read_energy_counter: a file that cannot be opened is
\* reported as content that does not parse
read_energy_counterOpenErrorIsInvalid(file) ==
    IF file.k \in {"absent", "unreadable"} THEN Err("InvalidMeasurement")
    ELSE ParseU64(file)

\* RaplMeasurement::read_energy_counter
read_energy_counter(file) ==
    IF file.k \in {"absent", "unreadable"} THEN Err("IoError")
    ELSE ParseU64(file)

(***************************************************************************)
(* AcpiMeasurement                                                         *)
(***************************************************************************)
BAT == <<"B", "A", "T">>

AC == <<"A", "C">>

\* the entries of the listing that new() retains, in listing order
RECURSIVE RetainedSupplies(_)
RetainedSupplies(entries) ==
    IF entries = <<>> THEN <<>>
    ELSE LET entry == Head(entries)
             rest  == RetainedSupplies(Tail(entries))
         IN  IF entry.is_dir
                /\ (StartsWith(entry.name, BAT) \/ StartsWith(entry.name, AC))
             THEN <<entry.name>> \o rest
             ELSE rest

\* a variant of AcpiNew: a listing without a device gives a reader all the
\* same
AcpiNewAllowsEmpty(reg) ==
    IF ~reg.exists THEN Err("AcpiNotAvailable")
    ELSE IF ~reg.listable THEN Err("AcpiNotAvailable")
    ELSE Ok(RetainedSupplies(reg.entries))

\* AcpiMeasurement::new, given /sys/class/power_supply as it is found
AcpiNew(reg) ==
    IF ~reg.exists THEN Err("AcpiNotAvailable")
    ELSE IF ~reg.listable THEN Err("AcpiNotAvailable")
    ELSE LET power_supplies == RetainedSupplies(reg.entries)
         IN  IF power_supplies = <<>> THEN Err("AcpiNotAvailable")
             ELSE Ok(power_supplies)

None == [some |-> FALSE, v |-> Zero]

Some(x) == [some |-> TRUE, v |-> x]

unwrap_or(opt, dflt) == IF opt.some THEN opt.v ELSE dflt

\* a variant of read_value: content that does not parse is taken as absent
read_valueUnparsedIsAbsent(file) ==
    IF file.k = "absent" THEN Ok(None)
    ELSE IF file.k = "unreadable" THEN Err("IoError")
    ELSE IF file.k = "text" THEN Ok(None)
    ELSE Ok(Some(FromInt(file.v)))

\* the read_value closure of read_power_info
read_value(file) ==
    IF file.k = "absent" THEN Ok(None)
    ELSE IF file.k = "unreadable" THEN Err("IoError")
    ELSE IF file.k = "text" THEN Err("InvalidMeasurement")
    ELSE Ok(Some(FromInt(file.v)))

\* one iteration of read_power_info's loop: the AcpiPowerInfo of one supply
SupplyInfo(dev) ==
    LET voltage == read_value(dev.voltage_now)
        current == read_value(dev.current_now)
        power   == read_value(dev.power_now)
        energy  == read_value(dev.energy_now)
    IN  IF ~voltage.ok THEN voltage
        ELSE IF ~current.ok THEN current
        ELSE IF ~power.ok THEN power
        ELSE IF ~energy.ok THEN energy
        ELSE Ok([voltage_now |-> unwrap_or(voltage.v, Zero),
                 current_now |-> unwrap_or(current.v, Zero),
                 power_now   |-> power.v,
                 energy_now  |-> energy.v])

\* AcpiMeasurement::read_power_info over the supplies from index i on;
\* fs[i] holds the attribute files of supply i
RECURSIVE ReadPowerInfoFrom(_, _, _, _)
ReadPowerInfoFrom(supplies, fs, i, results) ==
    IF i > Len(supplies) THEN Ok(results)
    ELSE LET one == SupplyInfo(fs[i])
         IN  IF ~one.ok THEN one
             ELSE ReadPowerInfoFrom(supplies, fs, i + 1, Append(results, one.v))

read_power_info(supplies, fs) == ReadPowerInfoFrom(supplies, fs, 1, <<>>)

\* the loop of calculate_power: total_power in microwatts
RECURSIVE TotalPower(_, _)
TotalPower(info, total_power) ==
    IF info = <<>> THEN total_power
    ELSE LET supply == Head(info)
             term   == IF supply.power_now.some
                       THEN supply.power_now.v
                       ELSE FDiv(FMul(supply.voltage_now, supply.current_now),
                                 FromInt(MicroPerUnit))
         IN  TotalPower(Tail(info), FAdd(total_power, term))

\* a variant of calculate_power: the mean over the supplies
calculate_powerAverage(info) ==
    IF info = <<>> THEN Zero
    ELSE FDiv(FDiv(TotalPower(info, Zero), FromInt(Len(info))),
              FromInt(MicroPerUnit))

\* AcpiMeasurement::calculate_power
calculate_power(info) == FDiv(TotalPower(info, Zero), FromInt(MicroPerUnit))

(***************************************************************************)
(* The unit conversions.  An Energy (uom::si::f64::Energy) is held as its  *)
(* f64 value in joules, the value the tests read as `.value`: 1 kWh is     *)
(* held as 3,600,000.                                                      *)
(***************************************************************************)
\* Energy::get::<kilowatt_hour>
get_kilowatt_hour(energy) == FDiv(energy, FromInt(JoulesPerKwh))

\* Energy::new::<joule>
new_joule(value) == value

\* kwh.get::<kilowatt_hour>() * co2e_per_kwh
kwh_to_co2e(kwh, co2e_per_kwh) == FMul(get_kilowatt_hour(kwh), co2e_per_kwh)

\* joules / 3_600_000.0: an Energy divided by a number is an Energy
joules_to_kwh(joules) == FDiv(joules, FromInt(JoulesPerKwh))

\* Energy::new::<joule>(kwh.get::<kilowatt_hour>() * 3_600_000.0)
kwh_to_joules(kwh) ==
    new_joule(FMul(get_kilowatt_hour(kwh), FromInt(JoulesPerKwh)))

\* EnergyMeasurement::co2e
co2e(total_energy, co2e_per_kwh) ==
    kwh_to_co2e(joules_to_kwh(total_energy),
                unwrap_or(co2e_per_kwh, FromInt(DefaultCo2ePerKwh)))

(***************************************************************************)
(* The inputs the model draws.                                             *)
(***************************************************************************)
PowerSources == {"Auto", "Rapl", "Acpi", "TdpEstimate"}

\* config.duration, in milliseconds
Durations == {0, 1500}

\* config.sample_interval_ms
SampleIntervals == {500, 1000}

\* how far one step of the clock advances it
TimeSteps == {500}

\* what the clock reads when measure is called
CallTimes == {0, 500}

\* the content of energy_uj when it is read
RaplFiles == {Absent, Text, Num(1000000), Num(3500000)}

Entry(name, is_dir) == [name |-> name, is_dir |-> is_dir]

BAT0 == <<"B", "A", "T", "0">>

Hid == <<"h", "i", "d">>

Registry(exists, listable, entries) ==
    [exists |-> exists, listable |-> listable, entries |-> entries]

\* /sys/class/power_supply when new() looks at it
Registries ==
    { Registry(FALSE, FALSE, <<>>),
      Registry(TRUE, FALSE, <<>>),
      Registry(TRUE, TRUE, <<>>),
      Registry(TRUE, TRUE, <<Entry(Hid, TRUE), Entry(BAT0, FALSE)>>),
      Registry(TRUE, TRUE, <<Entry(BAT0, TRUE)>>),
      Registry(TRUE, TRUE, <<Entry(Hid, TRUE), Entry(AC, TRUE), Entry(BAT0, TRUE)>>) }

Attrs(voltage, current, power, energy) ==
    [voltage_now |-> voltage, current_now |-> current,
     power_now |-> power, energy_now |-> energy]

\* the attribute files of a battery at one sampling tick
BatteryFiles ==
    { Attrs(Absent, Absent, Num(1552000), Absent),
      Attrs(Absent, Absent, Num(-2000000), Num(4000000)),
      Attrs(Num(4096000), Num(500000), Num(10000000), Absent),
      Attrs(Absent, Absent, Num(20000000), Absent),
      Attrs(Absent, Absent, Num(15000000), Absent),
      Attrs(Num(4096000), Num(500000), Absent, Absent),
      Attrs(Absent, Absent, Text, Absent),
      Attrs(Unreadable, Absent, Num(20000000), Absent) }

\* the attribute files of an AC adapter at one sampling tick
AdapterFiles == { Attrs(Absent, Absent, Absent, Absent) }

FilesOf(name) == IF StartsWith(name, BAT) THEN BatteryFiles ELSE AdapterFiles

\* the attribute files of every retained supply at one sampling tick
FsStates(supplies) ==
    { fs \in [1 .. Len(supplies) -> BatteryFiles \cup AdapterFiles] :
        \A i \in 1 .. Len(supplies) : fs[i] \in FilesOf(supplies[i]) }

(***************************************************************************)
(* State.                                                                  *)
(***************************************************************************)
VARIABLES
    config,          \* MeasurementConfig
    now,             \* the clock, in milliseconds
    pc,              \* where the thread calling measure is
    strategy,        \* the measure_with_* routine measure called
    probes,          \* what the Auto arm's new().is_ok() calls found
    supplies,        \* acpi.cached_power_supplies
    start_time,      \* start_time
    start_energy,    \* start_energy
    end_energy,      \* end_energy
    workload_runs,   \* how many times the workload closure was called
    returned_at,     \* the clock when the workload closure returned, or -1
    counter_reads,   \* the energy_uj files read_energy_counter found, in order
    spc,             \* where the sampling thread is
    threads,         \* how many sampling threads were spawned
    local_samples,   \* the sampling thread's local_samples
    local_peak,      \* the sampling thread's local_peak
    wake,            \* when the sampling thread's sleep ends
    dropped,         \* the last read_power_info error the sampling thread let go
    samples,         \* samples of measure_with_acpi
    peak_power,      \* peak_power of measure_with_acpi
    outcome,         \* "pending", or how measure ended: "ok", "err", "panic"
    error,           \* the MeasurementError returned
    failed_at,       \* the step whose error measure returned
    result,          \* the EnergyMeasurement returned
    call             \* the last direct call of a library function

vars == <<config, now, pc, strategy, probes, supplies, start_time,
          start_energy, end_energy, workload_runs, returned_at,
          counter_reads, spc, threads,
          local_samples, local_peak, wake, dropped, samples, peak_power,
          outcome, error, failed_at, result, call>>

mainVars == <<pc, strategy, probes, start_time, start_energy, end_energy,
              workload_runs, returned_at, counter_reads, samples, peak_power,
              outcome, error, failed_at, result>>

samplerVars == <<spc, local_samples, local_peak, wake, dropped>>

Measurement(total_energy, average_power, peak, duration, method) ==
    [total_energy |-> total_energy, average_power |-> average_power,
     peak_power |-> peak, duration |-> duration,
     measurement_method |-> method]

NoMeasurement == Measurement(Zero, Zero, Zero, 0, "none")

\* no library function was called directly
NoCall == [op |-> "none"]

Init ==
    /\ config \in [power_source : PowerSources, duration : Durations,
                   sample_interval_ms : SampleIntervals]
    /\ now \in CallTimes
    /\ pc = "measure"
    /\ strategy = "none"
    /\ probes = [rapl |-> "none", acpi |-> "none"]
    /\ supplies = <<>>
    /\ start_time = 0
    /\ start_energy = 0
    /\ end_energy = 0
    /\ workload_runs = 0
    /\ returned_at = -1
    /\ counter_reads = <<>>
    /\ spc = "none"
    /\ threads = 0
    /\ local_samples = <<>>
    /\ local_peak = Zero
    /\ wake = 0
    /\ dropped = "none"
    /\ samples = <<>>
    /\ peak_power = Zero
    /\ outcome = "pending"
    /\ error = "none"
    /\ failed_at = "none"
    /\ result = NoMeasurement
    /\ call = NoCall

\* measure goes on: nothing is returned yet
Continue == UNCHANGED <<outcome, error, failed_at, result>>

\* measure returns Err(e), from the step `at`
ReturnErr(e, at) ==
    /\ outcome' = "err"
    /\ error' = e
    /\ failed_at' = at
    /\ pc' = "done"
    /\ UNCHANGED result

\* measure returns Ok(m)
ReturnOk(m) ==
    /\ outcome' = "ok"
    /\ result' = m
    /\ pc' = "done"
    /\ UNCHANGED <<error, failed_at>>

\* a variant of ConstructFailed: the failure is swallowed and the thermal
\* estimate is taken instead
ConstructFailedFallsBack(e) ==
    /\ pc' = "tdp_start"
    /\ strategy' = "TdpEstimate"
    /\ Continue

\* the `?` on RaplMeasurement::new() and AcpiMeasurement::new() in
\* measure_with_rapl and measure_with_acpi: the error is returned
ConstructFailed(e) ==
    /\ ReturnErr(e, "construct")
    /\ UNCHANGED strategy

(***************************************************************************)
(* BenchmarkExecutor::measure                                              *)
(***************************************************************************)
\* a variant of MeasureArm: the Auto arm tries ACPI first
MeasureArmAcpiFirst(power_source) ==
    CASE power_source = "Auto"        -> [pc |-> "auto_acpi", strategy |-> "none"]
      [] power_source = "Rapl"        -> [pc |-> "rapl_new", strategy |-> "Rapl"]
      [] power_source = "Acpi"        -> [pc |-> "acpi_new", strategy |-> "Acpi"]
      [] power_source = "TdpEstimate" -> [pc |-> "tdp_start", strategy |-> "TdpEstimate"]

\* the arm of `match self.config.power_source` that is taken
MeasureArm(power_source) ==
    CASE power_source = "Auto"        -> [pc |-> "auto_rapl", strategy |-> "none"]
      [] power_source = "Rapl"        -> [pc |-> "rapl_new", strategy |-> "Rapl"]
      [] power_source = "Acpi"        -> [pc |-> "acpi_new", strategy |-> "Acpi"]
      [] power_source = "TdpEstimate" -> [pc |-> "tdp_start", strategy |-> "TdpEstimate"]

Measure ==
    /\ pc = "measure"
    /\ pc' = MeasureArm(config.power_source).pc
    /\ strategy' = MeasureArm(config.power_source).strategy
    /\ UNCHANGED <<call, counter_reads, config, now, probes, supplies, start_time, start_energy,
                   end_energy, workload_runs, returned_at, threads, samples, peak_power,
                   outcome, error, failed_at, result>>
    /\ UNCHANGED samplerVars

\* Auto: if RaplMeasurement::new().is_ok() { return self.measure_with_rapl(..) }
AutoTryRapl ==
    /\ pc = "auto_rapl"
    /\ \E exists \in BOOLEAN, openable \in BOOLEAN :
         LET r == RaplNew(exists, openable)
         IN  /\ probes' = [probes EXCEPT !.rapl = IF r.ok THEN "ok" ELSE "err"]
             /\ pc' = IF r.ok THEN "rapl_new" ELSE "auto_acpi"
             /\ strategy' = IF r.ok THEN "Rapl" ELSE strategy
    /\ UNCHANGED <<call, counter_reads, config, now, supplies, start_time, start_energy,
                   end_energy, workload_runs, returned_at, threads, samples, peak_power,
                   outcome, error, failed_at, result>>
    /\ UNCHANGED samplerVars

\* Auto: if AcpiMeasurement::new().is_ok() { return self.measure_with_acpi(..) }
\* and otherwise self.measure_with_tdp(..)
AutoTryAcpi ==
    /\ pc = "auto_acpi"
    /\ \E reg \in Registries :
         LET r == AcpiNew(reg)
         IN  /\ probes' = [probes EXCEPT !.acpi = IF r.ok THEN "ok" ELSE "err"]
             /\ pc' = IF r.ok THEN "acpi_new" ELSE "tdp_start"
             /\ strategy' = IF r.ok THEN "Acpi" ELSE "TdpEstimate"
    /\ UNCHANGED <<call, counter_reads, config, now, supplies, start_time, start_energy,
                   end_energy, workload_runs, returned_at, threads, samples, peak_power,
                   outcome, error, failed_at, result>>
    /\ UNCHANGED samplerVars

(***************************************************************************)
(* The workload closure.                                                   *)
(***************************************************************************)
\* workload() is called
WorkloadCall ==
    /\ pc = "workload"
    /\ workload_runs' = workload_runs + 1
    /\ pc' = "running"
    /\ UNCHANGED <<call, counter_reads, config, now, strategy, probes, supplies, start_time,
                   start_energy, end_energy, returned_at, threads, samples, peak_power,
                   outcome, error, failed_at, result>>
    /\ UNCHANGED samplerVars

\* a variant of WorkloadReturn: measure_with_acpi goes on to the reduction
\* without joining the sampling thread
WorkloadReturnSkipsJoin ==
    /\ pc = "running"
    /\ pc' = CASE strategy = "Rapl"        -> "rapl_end"
               [] strategy = "Acpi"        -> "acpi_end"
               [] strategy = "TdpEstimate" -> "tdp_end"
    /\ returned_at' = now
    /\ UNCHANGED <<call, counter_reads, config, now, strategy, probes, supplies, start_time,
                   start_energy, end_energy, workload_runs, threads, samples,
                   peak_power, outcome, error, failed_at, result>>
    /\ UNCHANGED samplerVars

\* workload() returns
WorkloadReturn ==
    /\ pc = "running"
    /\ pc' = CASE strategy = "Rapl"        -> "rapl_end"
               [] strategy = "Acpi"        -> "acpi_join"
               [] strategy = "TdpEstimate" -> "tdp_end"
    /\ returned_at' = now
    /\ UNCHANGED <<call, counter_reads, config, now, strategy, probes, supplies, start_time,
                   start_energy, end_energy, workload_runs, threads, samples,
                   peak_power, outcome, error, failed_at, result>>
    /\ UNCHANGED samplerVars

(***************************************************************************)
(* BenchmarkExecutor::measure_with_rapl                                    *)
(***************************************************************************)
\* let rapl = RaplMeasurement::new()?;
RaplConstruct ==
    /\ pc = "rapl_new"
    /\ \E exists \in BOOLEAN, openable \in BOOLEAN :
         LET r == RaplNew(exists, openable)
         IN  IF r.ok
             THEN /\ pc' = "rapl_start"
                  /\ UNCHANGED strategy
                  /\ Continue
             ELSE ConstructFailed(r.err)
    /\ UNCHANGED <<call, counter_reads, config, now, probes, supplies, start_time,
                   start_energy, end_energy, workload_runs, returned_at, threads, samples,
                   peak_power>>
    /\ UNCHANGED samplerVars

\* let start_energy = rapl.read_energy_counter()?;
\* let start_time = Instant::now();
RaplReadStart ==
    /\ pc = "rapl_start"
    /\ \E file \in RaplFiles :
         LET r == read_energy_counter(file)
         IN  /\ counter_reads' = Append(counter_reads, file)
             /\ IF r.ok
                THEN /\ start_energy' = r.v
                     /\ start_time' = now
                     /\ pc' = "workload"
                     /\ Continue
                ELSE /\ ReturnErr(r.err, "start_read")
                     /\ UNCHANGED <<start_energy, start_time>>
    /\ UNCHANGED <<call, config, now, strategy, probes, supplies, end_energy,
                   workload_runs, returned_at, threads, samples, peak_power>>
    /\ UNCHANGED samplerVars

\* u64 subtraction that wraps (a build without overflow checks)
WrappingSub(a, b) == (a - b) % Pow2(U64Bits)

\* samples.iter().cloned().fold(0.0, f64::max)
RECURSIVE FoldMax(_, _)
FoldMax(acc, xs) ==
    IF xs = <<>> THEN acc ELSE FoldMax(FMax(acc, Head(xs)), Tail(xs))

\* a variant of RaplMeasurementOf: peak_power is a copy of the average
RaplMeasurementOfPeakIsAverage(start, end, duration) ==
    LET energy_joules       == FDiv(FromInt(WrappingSub(end, start)),
                                    FromInt(MicroPerUnit))
        average_power_watts == FDiv(energy_joules, as_secs_f64(duration))
    IN  Measurement(energy_joules, average_power_watts, average_power_watts,
                    duration, "Rapl")

\* the EnergyMeasurement measure_with_rapl builds from its readings
RaplMeasurementOf(start, end, duration) ==
    LET energy_joules       == FDiv(FromInt(WrappingSub(end, start)),
                                    FromInt(MicroPerUnit))
        average_power_watts == FDiv(energy_joules, as_secs_f64(duration))
        peak                == FoldMax(Zero, <<Zero>>)
    IN  Measurement(energy_joules, average_power_watts, peak, duration, "Rapl")

\* let end_energy = rapl.read_energy_counter()?; let duration = ..elapsed();
\* and the reduction.  end_energy - start_energy panics on overflow in a
\* build with overflow checks and wraps in one without.
RaplFinish ==
    /\ pc = "rapl_end"
    /\ \E file \in RaplFiles, overflow_checks \in BOOLEAN :
         LET r == read_energy_counter(file)
         IN  /\ counter_reads' = Append(counter_reads, file)
             /\ IF ~r.ok
                THEN /\ ReturnErr(r.err, "end_read")
                     /\ UNCHANGED end_energy
                ELSE /\ end_energy' = r.v
                     /\ IF overflow_checks /\ r.v < start_energy
                        THEN /\ outcome' = "panic"
                             /\ pc' = "done"
                             /\ UNCHANGED <<error, failed_at, result>>
                        ELSE ReturnOk(RaplMeasurementOf(start_energy, r.v,
                                                        now - start_time))
    /\ UNCHANGED <<call, config, now, strategy, probes, supplies, start_time,
                   start_energy, workload_runs, returned_at, threads, samples, peak_power>>
    /\ UNCHANGED samplerVars

(***************************************************************************)
(* BenchmarkExecutor::measure_with_tdp                                     *)
(***************************************************************************)
\* a variant of TdpStart: the workload is never called
TdpStartSkipsWorkload ==
    /\ pc = "tdp_start"
    /\ start_time' = now
    /\ pc' = "tdp_end"
    /\ UNCHANGED <<call, counter_reads, config, now, strategy, probes, supplies, start_energy,
                   end_energy, workload_runs, returned_at, threads, samples, peak_power,
                   outcome, error, failed_at, result>>
    /\ UNCHANGED samplerVars

\* let start_time = Instant::now();
TdpStart ==
    /\ pc = "tdp_start"
    /\ start_time' = now
    /\ pc' = "workload"
    /\ UNCHANGED <<call, counter_reads, config, now, strategy, probes, supplies, start_energy,
                   end_energy, workload_runs, returned_at, threads, samples, peak_power,
                   outcome, error, failed_at, result>>
    /\ UNCHANGED samplerVars

\* a variant of TdpMeasurementOf: the result is tagged with the requested
\* source
TdpMeasurementOfRequested(duration) ==
    LET estimated_tdp == FromInt(EstimatedTdp)
        energy_joules == FMul(estimated_tdp, as_secs_f64(duration))
    IN  Measurement(energy_joules, estimated_tdp, estimated_tdp, duration,
                    config.power_source)

\* a variant of TdpMeasurementOf: the energy is estimated over the
\* configured duration
TdpMeasurementOfConfigured(duration) ==
    LET estimated_tdp == FromInt(EstimatedTdp)
        energy_joules == FMul(estimated_tdp, as_secs_f64(config.duration))
    IN  Measurement(energy_joules, estimated_tdp, estimated_tdp, duration,
                    "TdpEstimate")

\* the EnergyMeasurement measure_with_tdp builds
TdpMeasurementOf(duration) ==
    LET estimated_tdp == FromInt(EstimatedTdp)
        energy_joules == FMul(estimated_tdp, as_secs_f64(duration))
    IN  Measurement(energy_joules, estimated_tdp, estimated_tdp, duration,
                    "TdpEstimate")

\* let duration = start_time.elapsed(); and the estimate
TdpFinish ==
    /\ pc = "tdp_end"
    /\ ReturnOk(TdpMeasurementOf(now - start_time))
    /\ UNCHANGED <<call, counter_reads, config, now, strategy, probes, supplies, start_time,
                   start_energy, end_energy, workload_runs, returned_at, threads, samples,
                   peak_power>>
    /\ UNCHANGED samplerVars

(***************************************************************************)
(* BenchmarkExecutor::measure_with_acpi                                    *)
(***************************************************************************)
\* let acpi = AcpiMeasurement::new()?; let start_time = Instant::now();
\* let mut samples = Vec::new(); let mut peak_power = 0.0; thread::spawn(..)
AcpiConstruct ==
    /\ pc = "acpi_new"
    /\ \E reg \in Registries :
         LET r == AcpiNew(reg)
         IN  IF r.ok
             THEN /\ supplies' = r.v
                  /\ start_time' = now
                  /\ samples' = <<>>
                  /\ peak_power' = Zero
                  /\ threads' = threads + 1
                  /\ spc' = "check"
                  /\ local_samples' = <<>>
                  /\ local_peak' = Zero
                  /\ pc' = "workload"
                  /\ UNCHANGED strategy
                  /\ Continue
             ELSE /\ ConstructFailed(r.err)
                  /\ UNCHANGED <<supplies, start_time, samples, peak_power,
                                 threads, spc, local_samples, local_peak>>
    /\ UNCHANGED <<call, counter_reads, config, now, probes, start_energy, end_energy,
                   workload_runs, returned_at, wake, dropped>>

\* a variant of SamplerCheck: the loop has no time budget
SamplerCheckNeverExits ==
    /\ spc = "check"
    /\ spc' = "read"
    /\ UNCHANGED <<local_samples, local_peak, wake, dropped>>
    /\ UNCHANGED <<call, counter_reads, config, now, supplies, threads>>
    /\ UNCHANGED mainVars

\* a variant of SamplerCheck: the loop also ends when the workload is over
SamplerCheckWhileWorkloadRuns ==
    /\ spc = "check"
    /\ spc' = IF now - start_time < config.duration
                 /\ pc \in {"workload", "running"}
              THEN "read" ELSE "exit"
    /\ UNCHANGED <<local_samples, local_peak, wake, dropped>>
    /\ UNCHANGED <<call, counter_reads, config, now, supplies, threads>>
    /\ UNCHANGED mainVars

\* a variant of SamplerCheck: the loop goes on while the time elapsed is at
\* most the duration
SamplerCheckInclusive ==
    /\ spc = "check"
    /\ spc' = IF now - start_time <= config.duration THEN "read" ELSE "exit"
    /\ UNCHANGED <<local_samples, local_peak, wake, dropped>>
    /\ UNCHANGED <<call, counter_reads, config, now, supplies, threads>>
    /\ UNCHANGED mainVars

\* the sampling thread: while start_time.elapsed() < duration
SamplerCheck ==
    /\ spc = "check"
    /\ spc' = IF now - start_time < config.duration THEN "read" ELSE "exit"
    /\ UNCHANGED <<local_samples, local_peak, wake, dropped>>
    /\ UNCHANGED <<call, counter_reads, config, now, supplies, threads>>
    /\ UNCHANGED mainVars

\* the sampling thread: if let Ok(info) = acpi.read_power_info() { .. }
\* and the call of thread::sleep(sample_interval)
SamplerRead ==
    /\ spc = "read"
    /\ \E fs \in FsStates(supplies) :
         LET r == read_power_info(supplies, fs)
         IN  IF r.ok
             THEN LET power == calculate_power(r.v)
                  IN  /\ local_samples' = Append(local_samples, power)
                      /\ local_peak' = FMax(local_peak, power)
                      /\ UNCHANGED dropped
             ELSE /\ dropped' = r.err
                  /\ UNCHANGED <<local_samples, local_peak>>
    /\ wake' = now + config.sample_interval_ms
    /\ spc' = "sleep"
    /\ UNCHANGED <<call, counter_reads, config, now, supplies, threads>>
    /\ UNCHANGED mainVars

\* the sampling thread: thread::sleep returns
SamplerWake ==
    /\ spc = "sleep"
    /\ now >= wake
    /\ spc' = "check"
    /\ UNCHANGED <<local_samples, local_peak, wake, dropped>>
    /\ UNCHANGED <<call, counter_reads, config, now, supplies, threads>>
    /\ UNCHANGED mainVars

\* a variant of Join: the samples are taken over without waiting for the
\* sampling thread to finish
JoinWithoutWaiting ==
    /\ pc = "acpi_join"
    /\ spc # "none"
    /\ samples' = local_samples
    /\ peak_power' = local_peak
    /\ spc' = "joined"
    /\ pc' = "acpi_end"
    /\ UNCHANGED <<call, counter_reads, config, now, strategy, probes, supplies, start_time,
                   start_energy, end_energy, workload_runs, returned_at,
                   threads, local_samples, local_peak, wake, dropped, outcome,
                   error, failed_at, result>>

\* if let Ok((local_samples, local_peak)) = sampling_thread.join() { .. }
Join ==
    /\ pc = "acpi_join"
    /\ spc = "exit"
    /\ samples' = local_samples
    /\ peak_power' = local_peak
    /\ spc' = "joined"
    /\ pc' = "acpi_end"
    /\ UNCHANGED <<call, counter_reads, config, now, strategy, probes, supplies, start_time,
                   start_energy, end_energy, workload_runs, returned_at, threads,
                   local_samples, local_peak, wake, dropped, outcome, error,
                   failed_at, result>>

\* samples.iter().sum::<f64>()
RECURSIVE SumFrom(_, _)
SumFrom(acc, xs) ==
    IF xs = <<>> THEN acc ELSE SumFrom(FAdd(acc, Head(xs)), Tail(xs))

\* a variant of AcpiMeasurementOf: total_energy integrates the samples over
\* the sample interval
AcpiMeasurementOfIntegral(smpls, peak, duration) ==
    LET average_power == IF smpls # <<>>
                         THEN FDiv(SumFrom(Zero, smpls), FromInt(Len(smpls)))
                         ELSE Zero
        total_energy  == FMul(SumFrom(Zero, smpls),
                              as_secs_f64(config.sample_interval_ms))
    IN  Measurement(total_energy, average_power, peak, duration, "Acpi")

\* the EnergyMeasurement measure_with_acpi builds from the joined samples
AcpiMeasurementOf(smpls, peak, duration) ==
    LET average_power == IF smpls # <<>>
                         THEN FDiv(SumFrom(Zero, smpls), FromInt(Len(smpls)))
                         ELSE Zero
        total_energy  == FMul(average_power, as_secs_f64(duration))
    IN  Measurement(total_energy, average_power, peak, duration, "Acpi")

\* a variant of AcpiFinish: the duration is the time the workload took, as
\* if start_time.elapsed() were read before the join
AcpiFinishDurationBeforeJoin ==
    /\ pc = "acpi_end"
    /\ ReturnOk(AcpiMeasurementOf(samples, peak_power, returned_at - start_time))
    /\ UNCHANGED <<call, counter_reads, config, now, strategy, probes, supplies, start_time,
                   start_energy, end_energy, workload_runs, returned_at,
                   threads, samples, peak_power>>
    /\ UNCHANGED samplerVars

\* let duration = start_time.elapsed(); and the reduction
AcpiFinish ==
    /\ pc = "acpi_end"
    /\ ReturnOk(AcpiMeasurementOf(samples, peak_power, now - start_time))
    /\ UNCHANGED <<call, counter_reads, config, now, strategy, probes, supplies, start_time,
                   start_energy, end_energy, workload_runs, returned_at, threads, samples,
                   peak_power>>
    /\ UNCHANGED samplerVars

(***************************************************************************)
(* Time.                                                                   *)
(***************************************************************************)
\* a start_time was taken and measure has not returned
Measuring ==
    pc \in {"workload", "running", "rapl_end", "tdp_end", "acpi_join", "acpi_end"}

Tick ==
    /\ Measuring
    /\ \E dt \in TimeSteps :
         /\ now + dt <= MaxTime
         /\ now' = now + dt
    /\ UNCHANGED <<call, counter_reads, config, supplies, threads>>
    /\ UNCHANGED mainVars
    /\ UNCHANGED samplerVars

Next ==
    \/ Measure
    \/ AutoTryRapl
    \/ AutoTryAcpi
    \/ RaplConstruct
    \/ RaplReadStart
    \/ RaplFinish
    \/ TdpStart
    \/ TdpFinish
    \/ AcpiConstruct
    \/ SamplerCheck
    \/ SamplerRead
    \/ SamplerWake
    \/ Join
    \/ AcpiFinish
    \/ WorkloadCall
    \/ WorkloadReturn
    \/ Tick

Spec == Init /\ [][Next]_vars

(***************************************************************************)
(* Idealised timing: computation takes no time.  The clock advances only   *)
(* while the workload runs or measure waits in join() for a sleeping       *)
(* sampling thread, and never past the end of a thread::sleep.             *)
(***************************************************************************)
IdealTick ==
    /\ \/ pc = "running"
       \/ pc = "acpi_join" /\ spc = "sleep"
    /\ spc \notin {"check", "read"}
    /\ spc = "sleep" => now < wake
    /\ Tick

NextIdeal ==
    \/ Measure
    \/ AutoTryRapl
    \/ AutoTryAcpi
    \/ RaplConstruct
    \/ RaplReadStart
    \/ RaplFinish
    \/ TdpStart
    \/ TdpFinish
    \/ AcpiConstruct
    \/ SamplerCheck
    \/ SamplerRead
    \/ SamplerWake
    \/ Join
    \/ AcpiFinish
    \/ WorkloadCall
    \/ WorkloadReturn
    \/ IdealTick

IdealSpec == Init /\ [][NextIdeal]_vars

(***************************************************************************)
(* Scheduling: a thread that can take a step takes one, the clock          *)
(* advances, and the workload closure returns.                             *)
(***************************************************************************)
\* the steps of the thread that called measure, the workload apart
MainStep ==
    \/ Measure
    \/ AutoTryRapl
    \/ AutoTryAcpi
    \/ RaplConstruct
    \/ RaplReadStart
    \/ RaplFinish
    \/ TdpStart
    \/ TdpFinish
    \/ AcpiConstruct
    \/ Join
    \/ AcpiFinish
    \/ WorkloadCall

\* the steps of the sampling thread
SamplerStep ==
    \/ SamplerCheck
    \/ SamplerRead
    \/ SamplerWake

FairSpec ==
    /\ Init /\ [][NextIdeal]_vars
    /\ WF_vars(MainStep)
    /\ WF_vars(SamplerStep)
    /\ WF_vars(WorkloadReturn)
    /\ WF_vars(IdealTick)

(***************************************************************************)
(* Direct calls of the library's functions, on inputs drawn from bounded   *)
(* sets.  `call` holds the function, its argument and what it returned.    *)
(***************************************************************************)
\* the longest listing of /sys/class/power_supply
MaxEntries == 3

BAT1 == <<"B", "A", "T", "1">>

ACAD == <<"A", "C", "A", "D">>

BA == <<"B", "A">>

LowerBat0 == <<"b", "a", "t", "0">>

EntryNames == {BAT0, BAT1, AC, ACAD, Hid, BA, LowerBat0}

\* the listings of up to MaxEntries entries, no name twice
Listings ==
    UNION { { es \in [1 .. n -> [name : EntryNames, is_dir : BOOLEAN]] :
                \A i, j \in 1 .. n : i # j => es[i].name # es[j].name }
            : n \in 0 .. MaxEntries }

RegistryInputs ==
    { Registry(FALSE, FALSE, <<>>), Registry(TRUE, FALSE, <<>>) }
        \cup { Registry(TRUE, TRUE, es) : es \in Listings }

\* total_energy values, in joules
EnergyInputs ==
    { Zero, FromInt(1), Fin(5, -1), FromInt(42), FromInt(3600),
      FromInt(JoulesPerKwh), FromInt(2 * JoulesPerKwh) }

\* co2e_per_kwh
FactorInputs ==
    { None, Some(Zero), Some(FromInt(1)), Some(FromInt(DefaultCo2ePerKwh)),
      Some(FromInt(500)) }

FileInputs == { Absent, Unreadable, Text, Num(4096000), Num(500000) }

\* the supplies of a reader and their attribute files at one read
ReadInputs ==
    { <<ss, fs>> : ss \in {<<BAT0>>},
                   fs \in [1 .. 1 -> [voltage_now : FileInputs,
                                      current_now : FileInputs,
                                      power_now : FileInputs,
                                      energy_now : FileInputs]] }
        \cup { <<ss, fs>> : ss \in {<<BAT0, BAT1>>},
                            fs \in [1 .. 2 -> BatteryFiles] }

\* what a direct call leaves as it is
measureVars == <<config, now, supplies, threads, mainVars, samplerVars>>

Called(op, arg, ret) == [op |-> op, arg |-> arg, ret |-> ret]

CallAcpiNew ==
    /\ call = NoCall
    /\ \E reg \in RegistryInputs :
         call' = Called("AcpiMeasurement::new", reg, AcpiNew(reg))
    /\ UNCHANGED measureVars

CallCo2e ==
    /\ call = NoCall
    /\ \E total_energy \in EnergyInputs, co2e_per_kwh \in FactorInputs :
         call' = Called("co2e", <<total_energy, co2e_per_kwh>>,
                        co2e(total_energy, co2e_per_kwh))
    /\ UNCHANGED measureVars

CallRoundTrip ==
    /\ call = NoCall
    /\ \E x \in EnergyInputs :
         call' = Called("joules_to_kwh(kwh_to_joules)", x,
                        joules_to_kwh(kwh_to_joules(x)))
    /\ UNCHANGED measureVars

\* one AcpiPowerInfo
InfoInputs ==
    [voltage_now : {Zero, FromInt(4096000), FromInt(12000000)},
     current_now : {Zero, FromInt(500000), FromInt(2000000)},
     power_now   : {None, Some(FromInt(10000000)), Some(FromInt(15000000)),
                    Some(FromInt(-2000000))},
     energy_now  : {None, Some(FromInt(4000000))}]

\* the slices of readings handed to calculate_power: of no supply, of one
\* and of two
InfoLists ==
    {<<>>} \cup { <<a>> : a \in InfoInputs }
           \cup { <<a, b>> : a \in InfoInputs, b \in InfoInputs }

CallCalculatePower ==
    /\ call = NoCall
    /\ \E info \in InfoLists :
         call' = Called("calculate_power", info, calculate_power(info))
    /\ UNCHANGED measureVars

CallReadPowerInfo ==
    /\ call = NoCall
    /\ \E in \in ReadInputs :
         call' = Called("read_power_info", in, read_power_info(in[1], in[2]))
    /\ UNCHANGED measureVars

InitLib ==
    /\ Init
    /\ config = [power_source |-> "TdpEstimate", duration |-> 0,
                 sample_interval_ms |-> 500]
    /\ now = 0

NextLib ==
    \/ CallAcpiNew
    \/ CallCo2e
    \/ CallRoundTrip
    \/ CallReadPowerInfo
    \/ CallCalculatePower

LibSpec == InitLib /\ [][NextLib]_vars

(***************************************************************************)
(* Properties.                                                             *)
(***************************************************************************)
Returned == pc = "done" /\ outcome \in {"ok", "err"}

ReturnedOk == pc = "done" /\ outcome = "ok"

ConstructionErrors == {"RaplNotAvailable", "AcpiNotAvailable"}

\* C1: for an Auto request the routine measure calls is measure_with_rapl
\* exactly when its RaplMeasurement::new() probe succeeded, measure_with_acpi
\* exactly when that probe failed and the AcpiMeasurement::new() probe
\* succeeded, and measure_with_tdp exactly when both probes failed; an Ok
\* result carries the method of the routine called, and with both probes
\* failed measure returns Ok with measurement_method TdpEstimate.
C1_AutoPriorityOrder ==
    config.power_source = "Auto" =>
        /\ strategy = "Rapl" <=> probes.rapl = "ok"
        /\ strategy = "Acpi" <=> (probes.rapl = "err" /\ probes.acpi = "ok")
        /\ strategy = "TdpEstimate"
             <=> (probes.rapl = "err" /\ probes.acpi = "err")
        /\ probes.rapl = "ok" => probes.acpi = "none"
        /\ ReturnedOk => result.measurement_method = strategy
        /\ (pc = "done" /\ probes.rapl = "err" /\ probes.acpi = "err")
             => (outcome = "ok" /\ result.measurement_method = "TdpEstimate")

\* C1 witness: an Auto call whose two probes failed has returned the thermal
\* estimate.
C1_Witness ==
    /\ config.power_source = "Auto"
    /\ probes = [rapl |-> "err", acpi |-> "err"]
    /\ ReturnedOk
    /\ result.measurement_method = "TdpEstimate"

ConstructionErrorOf(power_source) ==
    CASE power_source = "Rapl" -> "RaplNotAvailable"
      [] power_source = "Acpi" -> "AcpiNotAvailable"
      [] OTHER -> "none"

\* C2: for an explicit request measure probes nothing and calls only the
\* requested routine; when the requested reader's construction fails measure
\* has returned that reader's construction error, no other construction
\* error is ever returned, and an Ok result carries the requested method.
C2_ExplicitNoFallback ==
    config.power_source # "Auto" =>
        /\ pc # "measure" => strategy = config.power_source
        /\ probes = [rapl |-> "none", acpi |-> "none"]
        /\ failed_at = "construct"
             => (Returned /\ outcome = "err"
                 /\ error = ConstructionErrorOf(config.power_source))
        /\ (outcome = "err" /\ error \in ConstructionErrors)
             => (failed_at = "construct"
                 /\ error = ConstructionErrorOf(config.power_source))
        /\ ReturnedOk => result.measurement_method = config.power_source

\* C2 witness: an explicit Acpi request whose construction failed returned
\* AcpiNotAvailable.
C2_Witness ==
    /\ config.power_source = "Acpi"
    /\ failed_at = "construct"
    /\ outcome = "err"
    /\ error = "AcpiNotAvailable"

\* C3: for an Auto request measure never returns RaplNotAvailable or
\* AcpiNotAvailable.
C3_AutoAbsorbsConstructionErrors ==
    (config.power_source = "Auto" /\ outcome = "err")
        => error \notin ConstructionErrors

\* C4 as claimed: whenever measure has ended, whatever the outcome, the
\* workload closure was executed exactly once.
C4_ExactlyOnceEveryOutcome == pc = "done" => workload_runs = 1

\* C4 as amended: the workload closure is executed at most once per call; a
\* call that failed at reader construction or at the start counter read did
\* not execute it, and every other call that ended executed it exactly once.
C4_ExactlyOnceUnlessSetupFailed ==
    /\ workload_runs <= 1
    /\ pc = "done" =>
         IF failed_at \in {"construct", "start_read"}
         THEN workload_runs = 0
         ELSE workload_runs = 1

\* C4 witness: a call that failed at the end counter read, after the one
\* execution of the workload.
C4_Witness ==
    /\ pc = "done"
    /\ failed_at = "end_read"
    /\ workload_runs = 1

\* C5: the measurement_method of a returned EnergyMeasurement is never Auto:
\* it is Rapl, Acpi or TdpEstimate, the routine measure called.
C5_MethodNeverAuto ==
    ReturnedOk =>
        /\ result.measurement_method \in {"Rapl", "Acpi", "TdpEstimate"}
        /\ result.measurement_method = strategy

\* C5 witness: an Auto request that returned a measurement.
C5_Witness ==
    /\ config.power_source = "Auto"
    /\ ReturnedOk
    /\ result.measurement_method = "Acpi"

\* C6: once measure_with_tdp has been called and measure has ended, it
\* returned Ok, with total_energy 28 * d for the elapsed duration d in
\* seconds, average_power and peak_power 28 and method TdpEstimate, whatever
\* the configured duration and sample interval.
C6_TdpEstimate ==
    (strategy = "TdpEstimate" /\ pc = "done") =>
        /\ outcome = "ok"
        /\ result.duration = now - start_time
        /\ result.total_energy = FMul(Fin(7, 2), as_secs_f64(result.duration))
        /\ result.average_power = Fin(7, 2)
        /\ result.peak_power = Fin(7, 2)
        /\ result.measurement_method = "TdpEstimate"

\* C6 witness: an explicit TdpEstimate call over 1.5 s returned 42 J.
C6_Witness ==
    /\ config.power_source = "TdpEstimate"
    /\ ReturnedOk
    /\ result.duration = 1500
    /\ result.total_energy = Fin(21, 1)

\* C7: an Ok result of measure_with_rapl, with end_energy >= start_energy
\* and an elapsed duration d > 0, has total_energy (end - start) / 1,000,000,
\* average_power total_energy / d and peak_power 0.
C7_RaplReduction ==
    (strategy = "Rapl" /\ ReturnedOk /\ end_energy >= start_energy
     /\ result.duration > 0) =>
        /\ result.total_energy
             = FDiv(FromInt(end_energy - start_energy), FromInt(1000000))
        /\ result.average_power
             = FDiv(result.total_energy, as_secs_f64(result.duration))
        /\ result.peak_power = Zero

\* C7 witness: 1,000,000 then 3,500,000 microjoules over 2.5 s give 2.5 J
\* and 1 W.
C7_Witness ==
    /\ strategy = "Rapl"
    /\ ReturnedOk
    /\ start_energy = 1000000
    /\ end_energy = 3500000
    /\ result.duration = 2500
    /\ result.total_energy = Fin(5, -1)
    /\ result.average_power = Fin(1, 0)
    /\ result.peak_power = Zero

\* the greatest element of a non-empty sequence of finite values
RECURSIVE MaxOf(_)
MaxOf(xs) ==
    IF Len(xs) = 1 THEN xs[1] ELSE FMax(xs[1], MaxOf(Tail(xs)))

\* the mean of a sequence as f64 computes it, 0 for the empty sequence
MeanOf(xs) ==
    IF xs = <<>> THEN Zero
    ELSE FDiv(SumFrom(Zero, xs), FromInt(Len(xs)))

C9_TotalEnergyNonNegative ==
    ReturnedOk => FLe(Zero, result.total_energy)

\* C10: every EnergyMeasurement measure_with_acpi returns has
\* peak_power >= average_power.
C10_PeakAtLeastAverage ==
    (strategy = "Acpi" /\ ReturnedOk)
        => FLe(result.average_power, result.peak_power)

\* C11: in measure_with_acpi a read_power_info that failed during a sampling
\* tick is surfaced: once a tick's read has failed, measure does not return
\* an Ok measurement, it returns that read's error.
C11_SamplerReadErrorSurfaced ==
    (strategy = "Acpi" /\ dropped # "none" /\ pc = "done")
        => (outcome = "err" /\ error = dropped)

\* C12: the sampling thread's lifetime follows the time budget alone.  Its
\* loop test sends it to a read exactly when the time elapsed since
\* start_time is below config.duration and to its exit otherwise, wherever
\* the workload is; a sample is appended only by a read that the test
\* admitted; once it has left the loop it never samples again.
C12_SamplerBoundToTimeBudget ==
    [][ /\ (spc = "check" /\ spc' # "check")
             => spc' = IF now - start_time < config.duration
                       THEN "read" ELSE "exit"
        /\ (spc' = "read" /\ spc # "read")
             => (spc = "check" /\ now - start_time < config.duration)
        /\ local_samples' # local_samples
             => (spc = "read" /\ Len(local_samples') = Len(local_samples) + 1)
        /\ spc \in {"exit", "joined"} => spc' \in {"exit", "joined"}
      ]_vars

\* C12 witness: the workload returned at once and the sampling thread went
\* on to collect samples for the rest of the time budget.
C12_Witness ==
    /\ strategy = "Acpi"
    /\ ReturnedOk
    /\ returned_at = start_time
    /\ config.duration = 1500
    /\ Len(samples) = 3

Max(a, b) == IF a >= b THEN a ELSE b

\* C13: under idealised timing, an Ok result of measure_with_acpi for a
\* workload that ran for W, with D = config.duration and
\* I = config.sample_interval_ms, has max(W, D) <= duration <= max(W, D + I).
C13_AcpiDurationBounds ==
    (strategy = "Acpi" /\ ReturnedOk) =>
        LET W == returned_at - start_time
            D == config.duration
            I == config.sample_interval_ms
        IN  /\ Max(W, D) <= result.duration
            /\ result.duration <= Max(W, D + I)

\* C13 witness: a workload of 0.5 s under a window of 1.5 s sampled every
\* second: the duration is 2 s, the end of the sleep that spans the window.
C13_Witness ==
    /\ strategy = "Acpi"
    /\ ReturnedOk
    /\ returned_at - start_time = 500
    /\ config.duration = 1500
    /\ config.sample_interval_ms = 1000
    /\ result.duration = 2000

\* C14: the handoff of measure_with_acpi is ordered.  The sampling thread
\* appends a sample or updates its peak only inside its loop, before it has
\* finished; measure receives the samples and the peak only in join(), after
\* the workload returned and the sampling thread finished, and receives what
\* the thread collected; it takes the final duration and reduces only after
\* the join; so no step of one side touches the samples while the other
\* side can.
C14_HandoffOrdered ==
    [][ /\ (local_samples' # local_samples \/ local_peak' # local_peak)
             => (spc = "read" /\ pc \notin {"acpi_end", "done"})
        /\ spc \in {"exit", "joined"}
             => UNCHANGED <<local_samples, local_peak>>
        /\ (samples' # samples \/ peak_power' # peak_power)
             => /\ pc = "acpi_join" /\ spc = "exit" /\ spc' = "joined"
                /\ returned_at >= 0
                /\ samples' = local_samples /\ peak_power' = local_peak
        /\ (strategy = "Acpi" /\ pc # "done" /\ pc' = "done" /\ outcome' = "ok")
             => /\ pc = "acpi_end" /\ spc = "joined"
                /\ returned_at >= 0
                /\ samples = local_samples /\ peak_power = local_peak
                /\ result'.duration = now - start_time
                /\ now >= returned_at
      ]_vars

\* C14 witness: measure_with_acpi returned two samples that the sampling
\* thread had collected before the join.
C14_Witness ==
    /\ strategy = "Acpi"
    /\ ReturnedOk
    /\ spc = "joined"
    /\ Len(samples) = 2
    /\ samples = local_samples
    /\ samples[1] # samples[2]

\* a measure of the work left: it is a natural number
Variant ==
    LET pcRank  == CASE pc = "measure"   -> 9
                     [] pc = "auto_rapl" -> 8
                     [] pc = "auto_acpi" -> 7
                     [] pc \in {"rapl_new", "acpi_new"} -> 6
                     [] pc \in {"rapl_start", "tdp_start"} -> 5
                     [] pc = "workload"  -> 4
                     [] pc = "running"   -> 3
                     [] pc \in {"rapl_end", "tdp_end", "acpi_join"} -> 2
                     [] pc = "acpi_end"  -> 1
                     [] pc = "done"      -> 0
        spcRank == CASE spc = "none"   -> 4
                     [] spc = "sleep"  -> 3
                     [] spc = "check"  -> 2
                     [] spc = "read"   -> 1
                     [] spc \in {"exit", "joined"} -> 0
        sleeps  == (MaxTime + 1000 - wake) \div 500
    IN  ((MaxTime - now) \div 500) * 100 + pcRank * 10 + sleeps * 4 + spcRank

\* some step is possible: at tdp_end and acpi_end it is the reduction,
\* which has no other condition
CanStep ==
    \/ pc \in {"tdp_end", "acpi_end"}
    \/ ENABLED (MainStep \/ SamplerStep \/ WorkloadReturn \/ IdealTick)

\* C15: with a workload that returns and a clock that advances, measure
\* returns, whatever the strategy: before measure has returned some step is
\* always possible, and every step lowers a natural number, so no run goes
\* on for ever.  In measure_with_acpi the sampling thread's loop test sends
\* it to its exit once the elapsed time has reached config.duration, and
\* while measure waits in join() the elapsed time stays below the duration
\* plus one sample interval.  While the workload runs the thread that
\* called measure can take no step of its own: it goes on only by the
\* workload's return, and measure has not returned.
C15_MeasureTerminates ==
    /\ [](pc = "done" \/ CanStep)
    /\ [](Variant >= 0)
    /\ [][Variant' < Variant]_vars
    /\ [][(spc = "check" /\ spc' # "check"
            /\ now - start_time >= config.duration) => spc' = "exit"]_vars
    /\ [](pc = "acpi_join" /\ spc # "exit"
            => now - start_time
                 < config.duration + config.sample_interval_ms)
    /\ [](pc = "running"
            => (outcome = "pending" /\ returned_at = -1 /\ ~ENABLED MainStep))
    /\ []((pc = "done" /\ workload_runs = 1) => returned_at >= 0)

\* C15 witness: the workload returned at once, measure waited in join() for
\* the sampling thread and returned when the thread's last sleep was over.
C15_Witness ==
    /\ strategy = "Acpi"
    /\ ReturnedOk
    /\ returned_at = start_time
    /\ config.duration = 1500
    /\ result.duration = 2000

\* C16: in one call of measure at most one sampling thread is spawned; one
\* is spawned only by measure_with_acpi, after its reader was constructed,
\* never by measure_with_rapl or measure_with_tdp and never in a call that
\* failed at construction; and when measure has returned the thread is not
\* alive: it never existed or it was joined.
C16_OneSamplerThread ==
    /\ threads <= 1
    /\ threads = 1 <=> spc # "none"
    /\ threads = 1 => (strategy = "Acpi" /\ failed_at # "construct")
    /\ strategy \in {"Rapl", "TdpEstimate"} => threads = 0
    /\ failed_at = "construct" => threads = 0
    /\ pc = "done" => spc \in {"none", "joined"}

\* C16 witness: an Auto call that took measure_with_acpi has returned, its
\* one sampling thread joined.
C16_Witness ==
    /\ config.power_source = "Auto"
    /\ strategy = "Acpi"
    /\ pc = "done"
    /\ threads = 1
    /\ spc = "joined"

\* a directory whose name starts with "BAT" or with "AC"
IsDevice(entry) ==
    /\ entry.is_dir
    /\ \/ /\ Len(entry.name) >= 3
          /\ entry.name[1] = "B" /\ entry.name[2] = "A" /\ entry.name[3] = "T"
       \/ /\ Len(entry.name) >= 2
          /\ entry.name[1] = "A" /\ entry.name[2] = "C"

\* C17: AcpiMeasurement::new fails, with AcpiNotAvailable, exactly when
\* /sys/class/power_supply does not exist, cannot be listed or lists no
\* device; a reader it returns has a non-empty device list, which is the
\* names of the listed directories that start with "BAT" or "AC", in
\* listing order, and of no other entry.
C17_AcpiNewRetainsDevices ==
    call.op = "AcpiMeasurement::new" =>
        LET reg     == call.arg
            ret     == call.ret
            devices == SelectSeq(reg.entries, IsDevice)
        IN  /\ (~reg.exists \/ ~reg.listable \/ devices = <<>>)
                 <=> ~ret.ok
            /\ ~ret.ok => ret.err = "AcpiNotAvailable"
            /\ ret.ok =>
                 /\ ret.v # <<>>
                 /\ Len(ret.v) = Len(devices)
                 /\ \A i \in 1 .. Len(devices) : ret.v[i] = devices[i].name

\* C17 witness: of a listing of three directories, AC and BAT0 were
\* retained and hid was not.
C17_Witness ==
    /\ call.op = "AcpiMeasurement::new"
    /\ call.arg.entries = <<Entry(AC, TRUE), Entry(Hid, TRUE), Entry(BAT0, TRUE)>>
    /\ call.ret.ok
    /\ call.ret.v = <<AC, BAT0>>

\* x <= y for finite x >= 0 and y >= 0 of any magnitudes
Leq(x, y) ==
    IF x.m = 0 THEN TRUE
    ELSE IF y.m = 0 THEN FALSE
    ELSE LET hx == BitLen(x.m) + x.e
             hy == BitLen(y.m) + y.e
         IN  IF hx # hy THEN hx < hy ELSE FLe(x, y)

\* C18: for a total_energy e >= 0 and a factor f >= 0, co2e(Some(f)) is e
\* in kWh, e / 3,600,000, times f; co2e does not decrease when e or f
\* grows; and co2e(None) is co2e(Some(436)).
C18_Co2eIsKwhTimesFactor ==
    call.op = "co2e" =>
        LET e   == call.arg[1]
            opt == call.arg[2]
            f   == unwrap_or(opt, FromInt(436))
        IN  /\ call.ret = FMul(FDiv(e, FromInt(3600000)), f)
            /\ \A e2 \in EnergyInputs :
                 Leq(e, e2) => Leq(call.ret, co2e(e2, opt))
            /\ \A opt2 \in FactorInputs :
                 Leq(f, unwrap_or(opt2, FromInt(436)))
                     => Leq(call.ret, co2e(e, opt2))
            /\ opt = None => call.ret = co2e(e, Some(FromInt(436)))

\* x and y >= 0 are equal to a relative tolerance of 2^-8
Close(x, y) ==
    IF x.m = 0 \/ y.m = 0 THEN x = y
    ELSE /\ Abs((BitLen(x.m) + x.e) - (BitLen(y.m) + y.e)) <= 1
         /\ LET d == FAdd(x, Fin(-y.m, y.e))
            IN  Leq(Fin(Abs(d.m), d.e), FMul(y, Fin(1, -8)))

\* C19: joules_to_kwh(kwh_to_joules(x)) is the energy x, to a tolerance.
C19_RoundTrip ==
    call.op = "joules_to_kwh(kwh_to_joules)" => Close(call.ret, call.arg)

\* the k-th file a read_power_info over the attribute files fs reads
FileAt(fs, k) ==
    LET dev == fs[(k - 1) \div 4 + 1]
        a   == (k - 1) % 4
    IN  CASE a = 0 -> dev.voltage_now
          [] a = 1 -> dev.current_now
          [] a = 2 -> dev.power_now
          [] a = 3 -> dev.energy_now

\* C20: read_power_info returns one reading per retained device, in device
\* order; an absent attribute file is no error: voltage_now and current_now
\* are then 0, power_now and energy_now None, and a file with a number
\* gives that number; a file that is present and does not parse makes the
\* whole call fail with InvalidMeasurement, and no list of readings is
\* returned.  (A file that cannot be read fails the call with IoError; of
\* several failing files the first that is read decides the error.)
C20_ReadPowerInfo ==
    call.op = "read_power_info" =>
        LET ss  == call.arg[1]
            fs  == call.arg[2]
            ret == call.ret
            n   == Len(ss)
            bad == {k \in 1 .. 4 * n : FileAt(fs, k).k \in {"text", "unreadable"}}
            val(file) == FromInt(file.v)
        IN  IF bad = {}
            THEN /\ ret.ok
                 /\ Len(ret.v) = n
                 /\ \A i \in 1 .. n :
                      /\ ret.v[i].voltage_now
                           = IF fs[i].voltage_now.k = "absent" THEN Zero
                             ELSE val(fs[i].voltage_now)
                      /\ ret.v[i].current_now
                           = IF fs[i].current_now.k = "absent" THEN Zero
                             ELSE val(fs[i].current_now)
                      /\ ret.v[i].power_now
                           = IF fs[i].power_now.k = "absent" THEN None
                             ELSE Some(val(fs[i].power_now))
                      /\ ret.v[i].energy_now
                           = IF fs[i].energy_now.k = "absent" THEN None
                             ELSE Some(val(fs[i].energy_now))
            ELSE LET first == CHOOSE k \in bad : \A j \in bad : k <= j
                 IN  /\ ~ret.ok
                     /\ ret.v = 0
                     /\ ret.err = IF FileAt(fs, first).k = "text"
                                  THEN "InvalidMeasurement" ELSE "IoError"

\* C20 witness: two batteries, the first with voltage and current and no
\* power file, the second with a power file alone, were read in that order.
C20_Witness ==
    /\ call.op = "read_power_info"
    /\ call.ret.ok
    /\ Len(call.ret.v) = 2
    /\ call.ret.v[1] = [voltage_now |-> FromInt(4096000),
                        current_now |-> FromInt(500000),
                        power_now |-> None, energy_now |-> None]
    /\ call.ret.v[2] = [voltage_now |-> Zero, current_now |-> Zero,
                        power_now |-> Some(FromInt(20000000)),
                        energy_now |-> None]

\* the power of one supply in microwatts: its power_now when it has one,
\* and its voltage times its current over 1,000,000 otherwise
SupplyMicrowatts(supply) ==
    IF supply.power_now.some THEN supply.power_now.v
    ELSE FDiv(FMul(supply.voltage_now, supply.current_now), FromInt(1000000))

\* C21: calculate_power returns the sum over the supplies, not their mean,
\* of each supply's power in microwatts, divided by 1,000,000; a supply's
\* power is its power_now when present, whatever its voltage and current,
\* and voltage_now * current_now / 1,000,000 otherwise; no supply gives 0.
C21_CalculatePower ==
    call.op = "calculate_power" =>
        LET info  == call.arg
            terms == [i \in 1 .. Len(info) |-> SupplyMicrowatts(info[i])]
        IN  /\ call.ret = FDiv(SumFrom(Zero, terms), FromInt(1000000))
            /\ info = <<>> => call.ret = Zero

\* C21 witness: a supply reporting 10 W beside a voltage and a current,
\* then a supply with 4.096 V and 0.5 A alone, gave 10 + 2.048 W.
C21_Witness ==
    /\ call.op = "calculate_power"
    /\ call.arg = << [voltage_now |-> FromInt(12000000),
                      current_now |-> FromInt(2000000),
                      power_now |-> Some(FromInt(10000000)),
                      energy_now |-> None],
                     [voltage_now |-> FromInt(4096000),
                      current_now |-> FromInt(500000),
                      power_now |-> None, energy_now |-> None] >>
    /\ Leq(FromInt(12), call.ret)
    /\ Leq(call.ret, FromInt(13))

\* C22: measure_with_rapl constructs the reader, reads the start counter,
\* runs the workload and reads the end counter, in that order.  When the
\* construction or the start read fails, measure returns that error and the
\* workload was not executed; when the end read fails (IoError for a file
\* that is gone, InvalidMeasurement for content that does not parse),
\* measure returns that error after the workload ran and returns no
\* EnergyMeasurement; an Ok result means both reads succeeded, with the one
\* run of the workload after the first and before the second.
C22_RaplProtocol ==
    LET n        == Len(counter_reads)
        IsNum(f) == f.k = "num"
        ErrOf(f) == CASE f = Absent -> "IoError"
                      [] f = Text   -> "InvalidMeasurement"
                      [] OTHER      -> "none"
    IN  /\ strategy # "Rapl" => n = 0
        /\ strategy = "Rapl" =>
              \* the order of the four steps
              /\ pc = "rapl_new" => n = 0
              /\ n = 0 => workload_runs = 0
              /\ workload_runs > 0 =>
                    n >= 1 /\ IsNum(counter_reads[1]) /\ workload_runs = 1
              /\ n = 2 => workload_runs = 1 /\ returned_at >= 0
              /\ n <= 2
              \* how measure ends
              /\ outcome = "err" =>
                    /\ result = NoMeasurement
                    /\ failed_at \in {"construct", "start_read", "end_read"}
              /\ failed_at = "construct" =>
                    /\ outcome = "err" /\ error = "RaplNotAvailable"
                    /\ n = 0 /\ workload_runs = 0
              /\ failed_at = "start_read" =>
                    /\ outcome = "err" /\ n = 1 /\ workload_runs = 0
                    /\ ~IsNum(counter_reads[1])
                    /\ error = ErrOf(counter_reads[1])
              /\ failed_at = "end_read" =>
                    /\ outcome = "err" /\ n = 2 /\ workload_runs = 1
                    /\ returned_at >= 0
                    /\ IsNum(counter_reads[1]) /\ ~IsNum(counter_reads[2])
                    /\ error = ErrOf(counter_reads[2])
              /\ outcome = "ok" =>
                    /\ n = 2 /\ workload_runs = 1 /\ returned_at >= 0
                    /\ IsNum(counter_reads[1]) /\ IsNum(counter_reads[2])
                    /\ result.measurement_method = "Rapl"

\* C22 witness: the start counter was read, the workload ran, and the end
\* read found the file gone: measure returned IoError and no measurement.
C22_Witness ==
    /\ pc = "done" /\ strategy = "Rapl"
    /\ counter_reads = <<Num(1000000), Absent>>
    /\ workload_runs = 1
    /\ outcome = "err" /\ error = "IoError"

\* the least integer that is at least a / b, for a >= 0 and b > 0
CeilDiv(a, b) == (a + b - 1) \div b

\* C23: in measure_with_acpi with sample_interval_ms = I > 0 and
\* config.duration = D, the sampling thread collects at most ceil(D / I)
\* samples, whatever the timing; it collects exactly that many when no read
\* failed and every loop test came on schedule, the k-th at (k - 1) * I
\* after start_time; with D = 0 it collects none, and measure then returns
\* Ok with average_power, peak_power and total_energy 0 and method Acpi.
C23_SampleCount ==
    /\ [](strategy = "Acpi" =>
            LET D     == config.duration
                bound == CeilDiv(D, config.sample_interval_ms)
            IN  /\ Len(local_samples) <= bound
                /\ Len(samples) <= bound
                /\ spc = "joined" => samples = local_samples
                /\ (D = 0 /\ threads = 1 /\ pc = "done") =>
                      /\ samples = <<>>
                      /\ outcome = "ok"
                      /\ result.average_power = Zero
                      /\ result.peak_power = Zero
                      /\ result.total_energy = Zero
                      /\ result.measurement_method = "Acpi")
    /\ [][ (/\ strategy = "Acpi"
            /\ spc = "check" /\ spc' = "exit"
            /\ dropped = "none"
            /\ now - start_time
                 = Len(local_samples) * config.sample_interval_ms)
              => Len(local_samples')
                   = CeilDiv(config.duration, config.sample_interval_ms)
      ]_vars

\* C23 witness: a window of 1.5 s sampled every second, no read failing,
\* gave two samples, ceil(1.5 / 1), and an Ok result.
C23_Witness ==
    /\ strategy = "Acpi"
    /\ ReturnedOk
    /\ config.duration = 1500
    /\ config.sample_interval_ms = 1000
    /\ dropped = "none"
    /\ Len(samples) = 2

====
